---- MODULE Spec2Model ----
(***************************************************************************)
(* A model of pupynere.py: the in-memory netcdf_file / netcdf_variable     *)
(* objects, the header codec, the layout engine (_var_metadata,            *)
(* _calc_begins), the eager writer (__generate__), the reader (_read) and  *)
(* the streaming writer (nc_generator).                                    *)
(*                                                                         *)
(* Bytes are naturals 0..255, byte strings are sequences of bytes.  A      *)
(* numpy array is modelled by its shape, its dtype byte order and its      *)
(* memory (the bytes tostring() returns).  Python's None is the value      *)
(* None; a python dict is a sequence of entries in iteration order.        *)
(***************************************************************************)
EXTENDS Integers, Sequences, FiniteSets, TLC

\* ------------------------------------------------------------------ bounds
\* Largest length of a fixed dimension the model declares.
MaxLen == 2
\* Largest number of successful createDimension calls on one file.
MaxDims == 2
\* Largest number of records SpecWrite gives a record variable, and largest
\* record index SpecFile assigns to.
MaxRecs == 1
\* Largest number of writes to fp.
MaxFlush == 2
\* np.empty() returns uninitialised memory: the first element of a new
\* variable's buffer holds any of the values 0..MaxFill.
MaxFill == 1

\* ------------------------------------------------------------------ values
\* Python's None (an unlimited dimension's length, a missing buffer).
None == -1
\* The byte asbytes('0') pads with, and the byte '\x00'.
PadByte == 48
NulByte == 0

DimNames == {"t", "xy"}
VarNames == {"a", "bb"}
AttNames == {"h"}
Lengths == {None} \cup (0..MaxLen)
\* numpy type strings a variable is created with: int8, '|S1', int16, int32,
\* float32, float64.
Types == {"b", "S", "h", "i", "f", "d"}
\* Dimension tuples of rank 0, 1 and 2.
DimTuples == {<<>>} \cup {<<d>> : d \in DimNames} \cup {<<d, e>> : d \in DimNames, e \in DimNames}

\* asbytes(name): the ASCII bytes of each name of the model.
asbytes(s) ==
  CASE s = "t" -> <<116>>
    [] s = "xy" -> <<120, 121>>
    [] s = "a" -> <<97>>
    [] s = "bb" -> <<98, 98>>
    [] s = "h" -> <<104>>
    [] s = "data" -> <<100, 97, 116, 97>>
    [] OTHER -> <<63>>

AllNames == DimNames \cup VarNames \cup AttNames \cup {"data"}

\* asstr(bytes): the name with these bytes ("?" for bytes that are no name of
\* the model).
asstr(bs) ==
  IF \E n \in AllNames : asbytes(n) = bs
  THEN CHOOSE n \in AllNames : asbytes(n) = bs
  ELSE "?"

\* Position of a name in the lexicographic order python's sorted() uses.
NameOrd(n) ==
  CASE n = "a" -> 1
    [] n = "bb" -> 2
    [] OTHER -> 0

\* ------------------------------------------------------------------ helpers
Min(a, b) == IF a < b THEN a ELSE b
Max(a, b) == IF a > b THEN a ELSE b

RECURSIVE Prod(_)
Prod(s) == IF s = <<>> THEN 1 ELSE Head(s) * Prod(Tail(s))

RECURSIVE Sum(_)
Sum(s) == IF s = <<>> THEN 0 ELSE Head(s) + Sum(Tail(s))

RECURSIVE Concat(_)
Concat(ss) == IF ss = <<>> THEN <<>> ELSE Head(ss) \o Concat(Tail(ss))

Repeat(b, n) == [k \in 1..n |-> b]

Reverse(s) == [k \in 1..Len(s) |-> s[Len(s) + 1 - k]]

\* -x % 4 in python: the distance to the next multiple of 4.
NegMod4(n) == (4 - (n % 4)) % 4

\* ------------------------------------------------------------------ types
\* dtype.itemsize
itemsize(t) ==
  CASE t = "b" -> 1
    [] t = "S" -> 1
    [] t = "h" -> 2
    [] t = "i" -> 4
    [] t = "f" -> 4
    [] t = "d" -> 8

\* dtype.byteorder of a dtype made from a type string: '|' for one-byte
\* types, '=' (native) for the others.
NativeOrder(t) == IF itemsize(t) = 1 THEN "|" ELSE "="

\* REVERSE: numpy type -> the last byte of the NC_* tag.
REVERSE(t) ==
  CASE t = "b" -> 1
    [] t = "S" -> 2
    [] t = "h" -> 3
    [] t = "i" -> 4
    [] t = "f" -> 5
    [] t = "d" -> 6

\* TYPEMAP: NC_* tag -> numpy type (big-endian for the multi-byte types);
\* "" when numpy has no corresponding type (the code raises).
TYPEMAP(tag) ==
  CASE tag = 1 -> "b"
    [] tag = 2 -> "S"
    [] tag = 3 -> "h"
    [] tag = 4 -> "i"
    [] tag = 5 -> "f"
    [] tag = 6 -> "d"
    [] OTHER -> ""

\* ------------------------------------------------------------------ arrays
\* Big-endian bytes of v >= 0 in n bytes (the low n bytes of v).
RECURSIVE BigEndian(_, _)
BigEndian(v, n) ==
  IF n = 0 THEN <<>> ELSE Append(BigEndian(v \div 256, n - 1), v % 256)

\* The value of big-endian bytes (unsigned).
RECURSIVE FromBigEndian(_)
FromBigEndian(bs) ==
  IF bs = <<>> THEN 0 ELSE FromBigEndian(SubSeq(bs, 1, Len(bs) - 1)) * 256 + bs[Len(bs)]

\* Whether memory of this dtype byte order is little-endian on the host.
IsLittle(order, le) == order = "<" \/ (order = "=" /\ le)

\* The memory of one element of value v, n bytes, in dtype byte order.
ElemMem(v, n, order, le) ==
  IF IsLittle(order, le) THEN Reverse(BigEndian(v, n)) ELSE BigEndian(v, n)

\* The value of one element's memory.
ElemVal(mem, order, le) ==
  IF IsLittle(order, le) THEN FromBigEndian(Reverse(mem)) ELSE FromBigEndian(mem)

\* A numpy array: shape, dtype byte order, element size and memory.  isNone
\* marks python's None standing where an array is expected.
Array(shape, order, size, mem) ==
  [isNone |-> FALSE, shape |-> shape, order |-> order, size |-> size, mem |-> mem]

NoArray == [isNone |-> TRUE, shape |-> <<>>, order |-> "|", size |-> 1, mem |-> <<>>]

\* The array of the values vals.
ArrayOf(vals, shape, t, le) ==
  Array(shape, NativeOrder(t), itemsize(t),
        Concat([k \in 1..Len(vals) |-> ElemMem(vals[k], itemsize(t), NativeOrder(t), le)]))

\* The values of an array, element by element in memory order.
Values(arr, le) ==
  [k \in 1..(Len(arr.mem) \div arr.size) |->
     ElemVal(SubSeq(arr.mem, (k - 1) * arr.size + 1, k * arr.size), arr.order, le)]

\* ndarray.byteswap(): every element's bytes reversed, the dtype kept.
byteswap(arr) ==
  [arr EXCEPT !.mem =
     Concat([k \in 1..(Len(arr.mem) \div arr.size) |->
               Reverse(SubSeq(arr.mem, (k - 1) * arr.size + 1, k * arr.size))])]

\* ------------------------------------------------------------------ state
VARIABLES
  LITTLE_ENDIAN,  \* numpy.little_endian: the host's byte order
  version_byte,   \* netcdf_file.version_byte
  dimensions,     \* netcdf_file.dimensions: name -> length
  _dims,          \* netcdf_file._dims: dimension names in order
  variables,      \* netcdf_file.variables: the NcOrderedDict, in iteration order
  _attributes,    \* netcdf_file._attributes
  _recs,          \* netcdf_file._recs
  _recsize,       \* netcdf_file._recsize
  declared,       \* history: variable names in order of first declaration
  op,             \* the last operation called with its arguments
  err,            \* the exception the last operation raised, "" for none
  out,            \* the bytes the last writer produced
  rd,             \* the netcdf_file object the last read produced
  gen,            \* the nc_generator in progress
  before,         \* history: the file object as the last writer received it
  fp,             \* netcdf_file.fp: the file handle and what was written to it
  ret             \* the value the last operation returned, None for none

vars == <<LITTLE_ENDIAN, version_byte, dimensions, _dims, variables, _attributes,
          _recs, _recsize, declared, op, err, out, rd, gen, before, fp, ret>>

\* An empty python dict keyed by names.
EmptyDict == [n \in {} |-> 0]

\* The file object as a value, for the operators that work on it.
Self ==
  [version_byte |-> version_byte, dimensions |-> dimensions, _dims |-> _dims,
   variables |-> variables, _attributes |-> _attributes, _recs |-> _recs,
   _recsize |-> _recsize]

\* netcdf_file.__init__ of a file that is not read: no dimensions, no
\* variables, no attributes.
NewFile(version) ==
  [version_byte |-> version, dimensions |-> EmptyDict, _dims |-> <<>>,
   variables |-> <<>>, _attributes |-> <<>>, _recs |-> 0, _recsize |-> 0]

NoGen == [pc |-> "none"]
NoRead == [ok |-> FALSE, error |-> "", file |-> NewFile(1)]


NoOp == [f |-> "__init__", args |-> <<>>]

\* fp of a file made without a filename (fp is None), and of a file opened
\* for write: nothing written, not closed.  writes counts the writelines
\* calls.
NoFile == [isNone |-> TRUE, closed |-> FALSE, bytes |-> <<>>, writes |-> 0]
OpenFile == [isNone |-> FALSE, closed |-> FALSE, bytes |-> <<>>, writes |-> 0]

\* ------------------------------------------------------------------ variables
\* python truthiness of a dimension length: None and 0 are false.
Falsy(length) == length = None \/ length = 0

\* netcdf_variable.__init__
netcdf_variable(name, data, type, shape, dims, attributes) ==
  [name |-> name, data |-> data, dtype |-> type, _shape |-> shape, dimensions |-> dims,
   _attributes |-> attributes, _begin |-> None, _vsize |-> None]

\* netcdf_variable.isrec: the buffer has a non-empty shape and the first
\* declared length is None or 0.  A variable whose buffer is None (a record
\* variable while the header is being read) is no record variable.
isrec(v) ==
  IF v.data.isNone \/ v.data.shape = <<>> THEN FALSE ELSE Falsy(v._shape[1])

\* The first component of the key NcOrderedDict sorts by,
\* (_shape and not isrec): () for a scalar, else a bool.  Python 2 orders
\* False < True < ().
SortRank(v) == IF v._shape = <<>> THEN 2 ELSE IF ~isrec(v) THEN 1 ELSE 0

\* Whether a sorts after b by the key (rank, name).
KeyGreater(a, b) ==
  \/ SortRank(a) > SortRank(b)
  \/ SortRank(a) = SortRank(b) /\ NameOrd(a.name) > NameOrd(b.name)

\* sorted(items, key) followed by reverse(): the items in descending order of
\* their keys.
RECURSIVE SortedReversed(_)
SortedReversed(items) ==
  IF items = {} THEN <<>>
  ELSE LET top == CHOOSE a \in items : \A b \in items \ {a} : KeyGreater(a, b)
       IN <<top>> \o SortedReversed(items \ {top})

Index(s, x) == CHOOSE k \in 1..Len(s) : s[k] = x /\ \A j \in 1..(k - 1) : s[j] # x

Keys(items) == [k \in 1..Len(items) |-> items[k].name]

HasKey(items, name) == \E k \in 1..Len(items) : items[k].name = name

Get(items, name) == items[CHOOSE k \in 1..Len(items) : items[k].name = name]

\* NcOrderedDict.__setitem__: an existing key keeps its place; a new key makes
\* the whole dict be sorted again.
NcSetItem(items, v) ==
  IF HasKey(items, v.name)
  THEN [k \in 1..Len(items) |-> IF items[k].name = v.name THEN v ELSE items[k]]
  ELSE SortedReversed({items[k] : k \in 1..Len(items)} \cup {v})

\* The items at the indices S in their order: filter() over items().
Picked(items, S) ==
  LET Nth(j) == CHOOSE k \in S : Cardinality({i \in S : i < k}) = j - 1
  IN [j \in 1..Cardinality(S) |-> items[Nth(j)]]

\* netcdf_file.recvars / non_recvars
recvars(items) == Picked(items, {k \in 1..Len(items) : isrec(items[k])})
non_recvars(items) == Picked(items, {k \in 1..Len(items) : ~isrec(items[k])})

\* numpy.empty(shape_, type): an array of the shape whose memory is not
\* initialised; element k holds fill + k.
empty(shape, t, fill, le) ==
  ArrayOf([k \in 1..Prod(shape) |-> (fill + k - 1) % 256], shape, t, le)

\* ------------------------------------------------------------------ the API
Frozen == UNCHANGED <<LITTLE_ENDIAN, version_byte>>
NoCodec == UNCHANGED <<out, rd, gen, before, fp, ret>>

\* createDimension without its check of the unlimited dimension.
createDimension_unchecked(name, length) ==
  /\ op' = [f |-> "createDimension", args |-> <<name, length>>]
  /\ err' = ""
  /\ dimensions' = (name :> length) @@ dimensions
  /\ _dims' = Append(_dims, name)
  /\ UNCHANGED <<variables, _attributes, _recs, _recsize, declared>>
  /\ Frozen /\ NoCodec

\* netcdf_file.createDimension(name, length)
createDimension(name, length) ==
  /\ op' = [f |-> "createDimension", args |-> <<name, length>>]
  /\ IF DOMAIN dimensions # {} /\ Falsy(length)
     THEN /\ err' = "ValueError"
          /\ UNCHANGED <<dimensions, _dims>>
     ELSE /\ err' = ""
          /\ dimensions' = (name :> length) @@ dimensions
          /\ _dims' = Append(_dims, name)
  /\ UNCHANGED <<variables, _attributes, _recs, _recsize, declared>>
  /\ Frozen /\ NoCodec

\* shape = tuple([self.dimensions[dim] for dim in dimensions])
ShapeOf(dims) == [k \in 1..Len(dims) |-> dimensions[dims[k]]]

\* shape_ = tuple([dim or 0 for dim in shape])
OrZero(shape) == [k \in 1..Len(shape) |-> IF Falsy(shape[k]) THEN 0 ELSE shape[k]]

\* createVariable's check of the shape: None in shape and
\* shape.index(None) != 0.
BadShape(shape) == (\E k \in 1..Len(shape) : shape[k] = None) /\ Index(shape, None) # 1

\* netcdf_file.createVariable(name, type, dimensions); fill stands for the
\* uninitialised memory of the new buffer.
createVariable(name, type, dims, fill) ==
  /\ op' = [f |-> "createVariable", args |-> <<name, dims>>]
  /\ IF \E k \in 1..Len(dims) : dims[k] \notin DOMAIN dimensions
     THEN /\ err' = "ValueError"
          /\ UNCHANGED <<variables, declared>>
     ELSE IF BadShape(ShapeOf(dims))
     THEN /\ err' = "ValueError"
          /\ UNCHANGED <<variables, declared>>
     ELSE /\ err' = ""
          /\ variables' =
               NcSetItem(variables,
                         netcdf_variable(name,
                                         empty(OrZero(ShapeOf(dims)), type, fill, LITTLE_ENDIAN),
                                         type, ShapeOf(dims), dims, <<>>))
          /\ declared' = IF \E k \in 1..Len(declared) : declared[k] = name
                         THEN declared ELSE Append(declared, name)
  /\ UNCHANGED <<dimensions, _dims, _attributes, _recs, _recsize>>
  /\ Frozen /\ NoCodec

\* dict.__setitem__ on a dict kept as a sequence of entries.
DictSet(d, name, value) ==
  IF \E k \in 1..Len(d) : d[k].name = name
  THEN [k \in 1..Len(d) |-> IF d[k].name = name THEN [name |-> name, value |-> value] ELSE d[k]]
  ELSE Append(d, [name |-> name, value |-> value])

\* ndarray.resize((recs,) + shape[1:]): the old memory cut to the new size,
\* or followed by zero bytes up to it.
resize(arr, recs) ==
  LET n == recs * Prod(Tail(arr.shape)) * arr.size
  IN [arr EXCEPT !.shape = <<recs>> \o Tail(arr.shape),
                 !.mem = SubSeq(arr.mem \o Repeat(NulByte, Max(0, n - Len(arr.mem))), 1, n)]

\* data[i] = values on a buffer that holds row i.
SetRow(arr, i, values, le) ==
  LET n == Prod(Tail(arr.shape)) * arr.size
      row == Concat([k \in 1..Len(values) |-> ElemMem(values[k], arr.size, arr.order, le)])
  IN [arr EXCEPT !.mem = SubSeq(arr.mem, 1, i * n) \o row \o SubSeq(arr.mem, (i + 1) * n + 1, Len(arr.mem))]

\* The values var[i] = ... assigns in the model: base, base + 1, ... for the
\* elements of the row.
RowValues(arr, base) == [k \in 1..Prod(Tail(arr.shape)) |-> (base + k - 1) % 128]

\* The buffer of a record variable after a set that needs recs records, were
\* it resized whatever it holds.
Expand_always(v, recs) == resize(v.data, recs)

\* The buffer of a record variable after a set that needs recs records:
\* if recs > len(self.data): self.data.resize((recs,) + self._shape[1:])
Expand(v, recs) == IF recs > v.data.shape[1] THEN resize(v.data, recs) ELSE v.data

\* Whether that resize raises: a trailing declared length is None.
BadResize(v, recs) ==
  recs > v.data.shape[1] /\ \E k \in 2..Len(v._shape) : v._shape[k] = None

\* variables with the buffer of the variable name replaced.
WithData(name, data) ==
  [k \in 1..Len(variables) |->
     IF variables[k].name = name THEN [variables[k] EXCEPT !.data = data] ELSE variables[k]]

\* netcdf_variable.__setitem__(i, values) with an integer index i: a record
\* variable that holds fewer than i + 1 records is resized first.
__setitem__(name, i, base) ==
  /\ HasKey(variables, name)
  /\ op' = [f |-> "__setitem__", args |-> <<name, i>>]
  /\ LET v == Get(variables, name)
         grown == IF isrec(v) THEN Expand(v, i + 1) ELSE v.data
     IN IF isrec(v) /\ BadResize(v, i + 1)
        THEN err' = "TypeError" /\ UNCHANGED variables
        ELSE IF grown.shape = <<>> \/ i >= grown.shape[1]
        THEN err' = "IndexError" /\ variables' = WithData(name, grown)
        ELSE /\ err' = ""
             /\ variables' = WithData(name, SetRow(grown, i, RowValues(grown, base), LITTLE_ENDIAN))
  /\ UNCHANGED <<dimensions, _dims, _attributes, _recs, _recsize, declared>>
  /\ Frozen /\ NoCodec

\* data[start:] = rows: row start + j of the buffer takes rows[j], or every
\* row from start on takes the only row of rows.
RECURSIVE SetRows(_, _, _, _, _)
SetRows(arr, start, n, rows, le) ==
  IF n = 0 THEN arr
  ELSE SetRow(SetRows(arr, start, n - 1, rows, le), start + n - 1,
              IF Len(rows) = 1 THEN rows[1] ELSE rows[n], le)

\* netcdf_variable.__setitem__(slice(start, None), rows) with start None or
\* an integer from 0 and n rows: a record variable that holds fewer than
\* (start or 0) + n records is resized first.  The assignment raises when
\* the rows are neither one nor as many as the buffer holds from start on.
SetSlice(name, start, n) ==
  /\ HasKey(variables, name)
  /\ op' = [f |-> "__setitem__", args |-> <<name, start, n>>]
  /\ LET v == Get(variables, name)
         from == IF start = None THEN 0 ELSE start
         grown == IF isrec(v) THEN Expand(v, from + n) ELSE v.data
         rows == [j \in 1..n |-> RowValues(grown, 16 * (from + j))]
     IN IF isrec(v) /\ BadResize(v, from + n)
        THEN err' = "TypeError" /\ UNCHANGED variables
        ELSE IF grown.shape = <<>>
        THEN err' = "IndexError" /\ UNCHANGED variables
        ELSE IF n # 1 /\ n # Max(0, grown.shape[1] - from)
        THEN err' = "ValueError" /\ variables' = WithData(name, grown)
        ELSE /\ err' = ""
             /\ variables' = WithData(name, SetRows(grown, from, Max(0, grown.shape[1] - from),
                                                    rows, LITTLE_ENDIAN))
  /\ UNCHANGED <<dimensions, _dims, _attributes, _recs, _recsize, declared>>
  /\ Frozen /\ NoCodec

\* netcdf_file.__setattr__(name, value) for a user attribute.
__setattr__(name, value) ==
  /\ op' = [f |-> "__setattr__", args |-> <<name>>]
  /\ err' = ""
  /\ _attributes' = DictSet(_attributes, name, value)
  /\ UNCHANGED <<dimensions, _dims, variables, _recs, _recsize, declared>>
  /\ Frozen /\ NoCodec

\* ------------------------------------------------------------------ packing
ABSENT == <<0, 0, 0, 0, 0, 0, 0, 0>>
ZERO == <<0, 0, 0, 0>>
NC_DIMENSION == <<0, 0, 0, 10>>
NC_VARIABLE == <<0, 0, 0, 11>>
NC_ATTRIBUTE == <<0, 0, 0, 12>>
\* The NC_* type tag whose last byte is n.
NC_TYPE(n) == <<0, 0, 0, n>>

\* _pack_int: array(value, '>i').tostring()
_pack_int(value) == BigEndian(value, 4)

\* _pack_int64: array(value, '>q').tostring()
_pack_int64(value) == BigEndian(value, 8)

\* _pack_begin: 4 bytes for version 1, 8 bytes for version 2.
_pack_begin(version, begin) ==
  IF version = 1 THEN _pack_int(begin) ELSE _pack_int64(begin)

\* _pack_string: the length, the bytes, and '0' characters up to a multiple
\* of 4.
_pack_string(s) ==
  _pack_int(Len(asbytes(s))) \o asbytes(s) \o Repeat(PadByte, NegMod4(Len(asbytes(s))))

\* The vsize field: array(min(vsize, 2**32 - 4), 'int32').tostring(), an int32
\* in the host's byte order.  Every vsize of the model is far below the clip
\* at 2**32 - 4, so min() returns vsize.
PackVsize(vsize, le) == ElemMem(vsize, 4, "=", le)

\* ------------------------------------------------------------------ attributes
\* An attribute value is a python str, a python int or a numpy array.
StrValue(bytes) == [kind |-> "str", bytes |-> bytes, val |-> 0, arr |-> NoArray, dtype |-> ""]
IntValue(val) == [kind |-> "int", bytes |-> <<>>, val |-> val, arr |-> NoArray, dtype |-> ""]
ArrayValue(arr, t) == [kind |-> "array", bytes |-> <<>>, val |-> 0, arr |-> arr, dtype |-> t]

\* asarray(values, TYPEMAP(nc_type)).tostring(): the values of the array as
\* big-endian bytes.
AsBigEndian(arr, le) == IF IsLittle(arr.order, le) THEN byteswap(arr).mem ELSE arr.mem

\* _values: the type tag, nelems, the values big-endian and the padding.  A
\* str becomes an array of one 'S<n>' element, nelems is its itemsize (1 for
\* the empty string, whose single element is one NUL byte).
_values(value, le) ==
  IF value.kind = "str"
  THEN LET body == IF value.bytes = <<>> THEN <<NulByte>> ELSE value.bytes
       IN NC_TYPE(2) \o _pack_int(Len(body)) \o body \o Repeat(PadByte, NegMod4(Len(body)))
  ELSE IF value.kind = "int"
  THEN NC_TYPE(4) \o _pack_int(1) \o BigEndian(value.val, 4)
  ELSE LET body == AsBigEndian(value.arr, le)
           nelems == IF value.dtype = "S" THEN value.arr.size ELSE Len(body) \div value.arr.size
       IN NC_TYPE(REVERSE(value.dtype)) \o _pack_int(nelems) \o body \o
          Repeat(PadByte, NegMod4(Len(body)))

\* _att_array
_att_array(attributes, le) ==
  IF attributes = <<>> THEN ABSENT
  ELSE NC_ATTRIBUTE \o _pack_int(Len(attributes)) \o
       Concat([k \in 1..Len(attributes) |->
                 _pack_string(attributes[k].name) \o _values(attributes[k].value, le)])

\* ------------------------------------------------------------------ layout
\* _numrecs: a zero _recs is replaced by the highest record count of the
\* record variables.
NumRecs(f) ==
  IF f._recs = 0
  THEN IF recvars(f.variables) = <<>> THEN 0
       ELSE LET rv == recvars(f.variables)
                n == {rv[k].data.shape[1] : k \in 1..Len(rv)}
            IN CHOOSE m \in n : \A j \in n : j <= m
  ELSE f._recs

\* The padded per-record vsize of a record variable whatever the number of
\* record variables.
VsizeOf_padalways(f, v) ==
  LET raw == IF ~isrec(v) THEN Prod(v.data.shape) * itemsize(v.dtype)
             ELSE Prod(Tail(v.data.shape)) * itemsize(v.dtype)
  IN raw + NegMod4(raw)

\* The vsize _var_metadata computes: the bytes of a non-record variable
\* rounded up to a multiple of 4; the bytes of one record of a record
\* variable, rounded up only when the file has more than one record variable.
VsizeOf(f, v) ==
  IF ~isrec(v)
  THEN LET vsize == Prod(v.data.shape) * itemsize(v.dtype) IN vsize + NegMod4(vsize)
  ELSE LET vsize == Prod(Tail(v.data.shape)) * itemsize(v.dtype)
       IN IF Len(recvars(f.variables)) > 1 THEN vsize + NegMod4(vsize) ELSE vsize

\* _var_metadata: the bytes of one variable of the header (the begin field is
\* 0 when the variable has no _begin yet).
_var_metadata(f, v, le) ==
  _pack_string(v.name) \o
  _pack_int(Len(v.dimensions)) \o
  Concat([k \in 1..Len(v.dimensions) |-> _pack_int(Index(f._dims, v.dimensions[k]) - 1)]) \o
  _att_array(v._attributes, le) \o
  NC_TYPE(REVERSE(v.dtype)) \o
  PackVsize(VsizeOf(f, v), le) \o
  _pack_begin(f.version_byte, IF v._begin = None THEN 0 ELSE v._begin)

\* _dim_array
_dim_array(f) ==
  IF DOMAIN f.dimensions = {} THEN ABSENT
  ELSE NC_DIMENSION \o _pack_int(Cardinality(DOMAIN f.dimensions)) \o
       Concat([k \in 1..Len(f._dims) |->
                 _pack_string(f._dims[k]) \o
                 _pack_int(IF Falsy(f.dimensions[f._dims[k]]) THEN 0 ELSE f.dimensions[f._dims[k]])])

\* _var_array
_var_array(f, le) ==
  IF f.variables = <<>> THEN ABSENT
  ELSE NC_VARIABLE \o _pack_int(Len(f.variables)) \o
       Concat([k \in 1..Len(f.variables) |-> _var_metadata(f, f.variables[k], le)])

\* The bytes _header() returns.
HeaderBytes(f, le) ==
  <<67, 68, 70>> \o <<f.version_byte>> \o _pack_int(NumRecs(f)) \o
  _dim_array(f) \o _att_array(f._attributes, le) \o _var_array(f, le)

\* The file after _header(): _recs set by _numrecs and, when the file has
\* variables, every _vsize and _recsize set by _var_array.
AfterHeader(f) ==
  IF f.variables = <<>> THEN [f EXCEPT !._recs = NumRecs(f)]
  ELSE LET vs == [k \in 1..Len(f.variables) |->
                    [f.variables[k] EXCEPT !._vsize = VsizeOf(f, f.variables[k])]]
           rv == recvars(vs)
       IN [f EXCEPT !._recs = NumRecs(f), !.variables = vs,
                    !._recsize = Sum([k \in 1..Len(rv) |-> rv[k]._vsize])]

\* The begins _calc_begins assigns to the first k variables, were every
\* variable to start where the first one does.
RECURSIVE Begins_shared(_, _, _)
Begins_shared(vs, k, first) ==
  IF k = 0 THEN vs
  ELSE [Begins_shared(vs, k - 1, first) EXCEPT ![k]._begin = first]

\* The begins _calc_begins assigns to the first k variables, were the first
\* one the placeholder 0 that _var_metadata packs before any begin is known.
RECURSIVE Begins_bogus(_, _, _)
Begins_bogus(vs, k, first) ==
  IF k = 0 THEN vs
  ELSE LET done == Begins_bogus(vs, k - 1, first)
       IN [done EXCEPT ![k]._begin =
             IF k = 1 THEN 0 ELSE done[k - 1]._begin + done[k - 1]._vsize]

\* The begins _calc_begins assigns to the first k variables: the header's
\* length for the first, the previous begin plus the previous vsize after it.
RECURSIVE Begins(_, _, _)
Begins(vs, k, first) ==
  IF k = 0 THEN vs
  ELSE LET done == Begins(vs, k - 1, first)
       IN [done EXCEPT ![k]._begin =
             IF k = 1 THEN first ELSE done[k - 1]._begin + done[k - 1]._vsize]

\* The file after _calc_begins(): _header() is called once, for the first
\* variable.
AfterCalcBegins(f, le) ==
  IF f.variables = <<>> THEN f
  ELSE LET g == AfterHeader(f)
       IN [g EXCEPT !.variables = Begins(g.variables, Len(g.variables), Len(HeaderBytes(f, le)))]

\* ------------------------------------------------------------------ eager writer
\* The bytes of record i (from 0) of a record variable: data[i].tostring().
RecordBytes(v, i) ==
  LET n == Prod(Tail(v.data.shape)) * v.data.size
  IN SubSeq(v.data.mem, i * n + 1, (i + 1) * n)

\* The first loop of _data: every buffer in little-endian order is replaced
\* by its byteswap(); the assignment var.data = ... goes through
\* netcdf_variable.__setattr__, which also records it as the attribute "data".
Swapped(vs, le) ==
  [k \in 1..Len(vs) |->
     IF IsLittle(vs[k].data.order, le)
     THEN [vs[k] EXCEPT !.data = byteswap(@),
                        !._attributes = DictSet(@, "data", ArrayValue(byteswap(vs[k].data), vs[k].dtype))]
     ELSE vs[k]]

\* What _data yields for the non-record variables: the buffer, then '0'
\* characters up to vsize.
NonRecData(vs) ==
  LET nr == non_recvars(vs)
  IN Concat([k \in 1..Len(nr) |->
               nr[k].data.mem \o
               Repeat(PadByte, nr[k]._vsize - Prod(nr[k].data.shape) * itemsize(nr[k].dtype))])

\* What the record loop of _data yields: for i in range(_recs), for every
\* record variable, record i.  A variable that holds no record i raises
\* IndexError, which ends the generator.
RecData(f) ==
  LET rv == recvars(f.variables)
      n == f._recs * Len(rv)
      rec(p) == (p - 1) \div Len(rv)
      var(p) == rv[((p - 1) % Len(rv)) + 1]
      bad == {p \in 1..n : rec(p) >= var(p).data.shape[1]}
      stop == IF bad = {} THEN n + 1 ELSE CHOOSE p \in bad : \A q \in bad : p <= q
  IN [bytes |-> Concat([p \in 1..(stop - 1) |-> RecordBytes(var(p), rec(p))]),
      err |-> IF bad = {} THEN "" ELSE "IndexError"]

\* __generate__: _calc_begins(), the header, the data.  The result is the
\* bytes yielded, the exception that ended the iteration and the file after.
Generate(f, le) ==
  LET g == AfterHeader(AfterCalcBegins(f, le))
      h == [g EXCEPT !.variables = Swapped(g.variables, le)]
  IN [bytes |-> HeaderBytes(AfterCalcBegins(f, le), le) \o NonRecData(h.variables) \o RecData(h).bytes,
      err |-> RecData(h).err,
      file |-> h]

\* The file object takes the fields of f.
Becomes(f) ==
  /\ variables' = f.variables
  /\ _recs' = f._recs
  /\ _recsize' = f._recsize
  /\ UNCHANGED <<dimensions, _dims, _attributes, declared>>
  /\ Frozen

\* netcdf_file._calc_begins()
_calc_begins ==
  /\ op' = [f |-> "_calc_begins", args |-> <<>>]
  /\ err' = ""
  /\ Becomes(AfterCalcBegins(Self, LITTLE_ENDIAN))
  /\ NoCodec

\* netcdf_file._header()
_header ==
  /\ op' = [f |-> "_header", args |-> <<>>]
  /\ err' = ""
  /\ Becomes(AfterHeader(Self))
  /\ out' = HeaderBytes(Self, LITTLE_ENDIAN)
  /\ UNCHANGED <<rd, gen, before, fp, ret>>

\* The eager writer: every block of __generate__() written in turn, as
\* _write() does with fp.writelines.
__generate__ ==
  /\ op' = [f |-> "__generate__", args |-> <<>>]
  /\ \E g \in {Generate(Self, LITTLE_ENDIAN)} :
       err' = g.err /\ Becomes(g.file) /\ out' = g.bytes
  /\ before' = Self
  /\ UNCHANGED <<rd, gen, fp, ret>>

\* ------------------------------------------------------------------ file handle
\* netcdf_file._write(): fp.writelines(self.__generate__()), fp being the
\* file the constructor opened.  writelines of a closed file raises before
\* it asks the generator for anything; it gathers the blocks before it
\* writes them, so when the generator raises, nothing is written.  The
\* blocks go where the last write ended.
_write ==
  IF fp.closed
  THEN /\ err' = "ValueError"
       /\ UNCHANGED <<dimensions, _dims, variables, _attributes, _recs, _recsize, declared>>
       /\ Frozen
       /\ UNCHANGED <<out, before, fp>>
  ELSE \E g \in {Generate(Self, LITTLE_ENDIAN)} :
         /\ err' = g.err
         /\ Becomes(g.file)
         /\ out' = g.bytes
         /\ before' = Self
         /\ fp' = [fp EXCEPT !.bytes = IF g.err = "" THEN @ \o g.bytes ELSE @,
                             !.writes = @ + 1]

\* netcdf_file.flush(): _write() when the mode is 'w'.  The mode of a file
\* made without a filename is None.
flush ==
  /\ op' = [f |-> "flush", args |-> <<>>]
  /\ IF fp.isNone
     THEN /\ err' = ""
          /\ UNCHANGED <<dimensions, _dims, variables, _attributes, _recs, _recsize, declared>>
          /\ Frozen
          /\ UNCHANGED <<out, before, fp>>
     ELSE _write
  /\ UNCHANGED <<rd, gen, ret>>

\* close() without its finally: fp stays open when flush() raises.
close_nofinally ==
  /\ op' = [f |-> "close", args |-> <<>>]
  /\ IF fp.isNone \/ fp.closed
     THEN /\ err' = ""
          /\ UNCHANGED <<dimensions, _dims, variables, _attributes, _recs, _recsize, declared>>
          /\ Frozen
          /\ UNCHANGED <<out, before, fp>>
     ELSE \E g \in {Generate(Self, LITTLE_ENDIAN)} :
            /\ err' = g.err
            /\ Becomes(g.file)
            /\ out' = g.bytes
            /\ before' = Self
            /\ fp' = [fp EXCEPT !.bytes = IF g.err = "" THEN @ \o g.bytes ELSE @,
                                !.writes = @ + 1,
                                !.closed = (g.err = "")]
  /\ UNCHANGED <<rd, gen, ret>>

\* netcdf_file.close(), which is __del__ too: nothing without fp, nothing
\* when fp is closed; otherwise flush() and, whether it raised or not,
\* fp.close().
close ==
  /\ op' = [f |-> "close", args |-> <<>>]
  /\ IF fp.isNone \/ fp.closed
     THEN /\ err' = ""
          /\ UNCHANGED <<dimensions, _dims, variables, _attributes, _recs, _recsize, declared>>
          /\ Frozen
          /\ UNCHANGED <<out, before, fp>>
     ELSE \E g \in {Generate(Self, LITTLE_ENDIAN)} :
            /\ err' = g.err
            /\ Becomes(g.file)
            /\ out' = g.bytes
            /\ before' = Self
            /\ fp' = [fp EXCEPT !.bytes = IF g.err = "" THEN @ \o g.bytes ELSE @,
                                !.writes = @ + 1,
                                !.closed = TRUE]
  /\ UNCHANGED <<rd, gen, ret>>

\* netcdf_file.set_numrecs(numrecs)
set_numrecs(numrecs) ==
  /\ op' = [f |-> "set_numrecs", args |-> <<numrecs>>]
  /\ err' = ""
  /\ _recs' = numrecs
  /\ UNCHANGED <<dimensions, _dims, variables, _attributes, _recsize, declared>>
  /\ Frozen /\ NoCodec

\* What the property filesize does to a file without fp: the exception it
\* raises, the value it returns and the file after.
FileSize(f, le) ==
  IF recvars(f.variables) # <<>>
  THEN IF f._recs = 0 THEN [err |-> "ValueError", ret |-> None, file |-> f]
       ELSE LET g == IF recvars(f.variables)[1]._begin = None THEN AfterCalcBegins(f, le) ELSE f
            IN [err |-> "", ret |-> recvars(g.variables)[1]._begin + g._recs * g._recsize,
                file |-> g]
  ELSE IF non_recvars(f.variables) = <<>> THEN [err |-> "IndexError", ret |-> None, file |-> f]
  ELSE LET nr == non_recvars(f.variables)
           g == IF nr[Len(nr)]._begin = None THEN AfterCalcBegins(f, le) ELSE f
           last == non_recvars(g.variables)[Len(nr)]
       IN [err |-> "", ret |-> last._begin + last._vsize, file |-> g]

\* netcdf_file.filesize: the size of the file on disk when there is fp;
\* otherwise the size the file will have.
filesize ==
  /\ op' = [f |-> "filesize", args |-> <<>>]
  /\ IF ~fp.isNone
     THEN /\ err' = ""
          /\ ret' = Len(fp.bytes)
          /\ UNCHANGED <<dimensions, _dims, variables, _attributes, _recs, _recsize, declared>>
          /\ Frozen
     ELSE \E s \in {FileSize(Self, LITTLE_ENDIAN)} :
            /\ err' = s.err
            /\ ret' = s.ret
            /\ Becomes(s.file)
  /\ UNCHANGED <<out, rd, gen, before, fp>>

\* ------------------------------------------------------------------ reader
\* fp.read(n) at offset pos (from 0): at most n bytes, fewer at the end of the
\* file.
FpRead(bs, pos, n) == SubSeq(bs, pos + 1, Min(pos + n, Len(bs)))

\* bytes.rstrip('\x00')
RECURSIVE RStrip(_)
RStrip(bs) ==
  IF bs # <<>> /\ bs[Len(bs)] = NulByte THEN RStrip(SubSeq(bs, 1, Len(bs) - 1)) ELSE bs

\* The value of a big-endian signed int32.
Int32(bs) ==
  IF bs[1] >= 128
  THEN (FromBigEndian(<<bs[1] - 128, bs[2], bs[3], bs[4]>>) - 2147483647) - 1
  ELSE FromBigEndian(bs)

\* A parse result: the value read and the offset after it, or the exception.
Parsed(val, pos) == [ok |-> TRUE, error |-> "", val |-> val, pos |-> pos]
Failed(error) == [ok |-> FALSE, error |-> error, val |-> 0, pos |-> 0]

\* _unpack_int: fromstring(self.fp.read(4), '>i')[0]
_unpack_int(bs, pos) ==
  IF Len(FpRead(bs, pos, 4)) < 4 THEN Failed("ValueError")
  ELSE Parsed(Int32(FpRead(bs, pos, 4)), pos + 4)

\* _unpack_int64: fromstring(self.fp.read(8), '>q')[0]; the model's offsets
\* fit the low four bytes.
_unpack_int64(bs, pos) ==
  IF Len(FpRead(bs, pos, 8)) < 8 THEN Failed("ValueError")
  ELSE IF FpRead(bs, pos, 4) # ZERO \/ FpRead(bs, pos + 4, 1)[1] >= 128 THEN Failed("Overflow")
  ELSE Parsed(FromBigEndian(FpRead(bs, pos + 4, 4)), pos + 8)

\* The begin field as _read_var reads it:
\* [self._unpack_int, self._unpack_int64][self.version_byte - 1]()
UnpackBegin(version, bs, pos) ==
  IF version = 1 \/ version = -1 THEN _unpack_int(bs, pos)
  ELSE IF version = 2 \/ version = 0 THEN _unpack_int64(bs, pos)
  ELSE Failed("IndexError")

\* K applied to the value of v, which is computed once.
With(v, K(_)) == CHOOSE r \in {K(x) : x \in {v}} : TRUE

\* One call after another: when the call p raised, its exception; otherwise
\* what K makes of its result.
Then(p, K(_)) == With(p, LAMBDA q : IF ~q.ok THEN q ELSE K(q))

\* _unpack_string: the count, the bytes without trailing NULs, the padding
\* skipped.
_unpack_string(bs, pos) ==
  Then(_unpack_int(bs, pos), LAMBDA c :
    IF c.val < 0 \/ Len(FpRead(bs, c.pos, c.val)) < c.val THEN Failed("ValueError")
    ELSE Parsed(RStrip(FpRead(bs, c.pos, c.val)), c.pos + c.val + NegMod4(c.val)))

\* dtype.byteorder of the type TYPEMAP returns.
DiskOrder(t) == IF itemsize(t) = 1 THEN "|" ELSE ">"

\* _read_values: a text value for NC_CHAR; for the other types the array
\* fromstring(values, type), or its only element when it has one.
_read_values(bs, pos) ==
  LET tag == FpRead(bs, pos, 4)
      t == IF Len(tag) = 4 /\ SubSeq(tag, 1, 3) = <<0, 0, 0>> THEN TYPEMAP(tag[4]) ELSE ""
  IN Then(_unpack_int(bs, pos + 4), LAMBDA n :
       IF t = "" THEN Failed("Exception")
       ELSE LET count == n.val * itemsize(t)
                values == FpRead(bs, n.pos, count)
                next == n.pos + count + NegMod4(count)
            IN IF count < 0 \/ Len(values) < count THEN Failed("ValueError")
               ELSE IF t = "S" THEN Parsed(StrValue(RStrip(values)), next)
               ELSE IF n.val = 1 THEN Parsed(IntValue(FromBigEndian(values)), next)
               ELSE Parsed(ArrayValue(Array(<<n.val>>, DiskOrder(t), itemsize(t), values), t), next))

\* The entries of an attribute array, count of them from pos on.
RECURSIVE ReadAtts(_, _, _, _)
ReadAtts(bs, pos, count, acc) ==
  IF count <= 0 THEN Parsed(acc, pos)
  ELSE Then(_unpack_string(bs, pos), LAMBDA name :
       Then(_read_values(bs, name.pos), LAMBDA value :
       With(DictSet(acc, asstr(name.val), value.val), LAMBDA added :
         ReadAtts(bs, value.pos, count - 1, added))))

\* _read_att_array
_read_att_array(bs, pos) ==
  LET hd == FpRead(bs, pos, 4)
  IN IF hd # ZERO /\ hd # NC_ATTRIBUTE THEN Failed("ValueError")
     ELSE IF hd = ZERO
     THEN IF FpRead(bs, pos + 4, 4) = ZERO THEN Parsed(<<>>, pos + 8) ELSE Failed("AssertionError")
     ELSE Then(_unpack_int(bs, pos + 4), LAMBDA count : ReadAtts(bs, count.pos, count.val, <<>>))

\* The entries of the dimension array; acc is [dimensions, _dims].
RECURSIVE ReadDims(_, _, _, _)
ReadDims(bs, pos, count, acc) ==
  IF count <= 0 THEN Parsed(acc, pos)
  ELSE Then(_unpack_string(bs, pos), LAMBDA name :
       Then(_unpack_int(bs, name.pos), LAMBDA length :
       With([dimensions |-> (asstr(name.val) :> (IF length.val = 0 THEN None ELSE length.val))
                              @@ acc.dimensions,
             _dims |-> Append(acc._dims, asstr(name.val))], LAMBDA added :
         ReadDims(bs, length.pos, count - 1, added))))

\* _read_dim_array
_read_dim_array(bs, pos) ==
  LET hd == FpRead(bs, pos, 4)
  IN IF hd # ZERO /\ hd # NC_DIMENSION THEN Failed("ValueError")
     ELSE Then(_unpack_int(bs, pos + 4), LAMBDA count :
            ReadDims(bs, count.pos, count.val, [dimensions |-> EmptyDict, _dims |-> <<>>]))

\* The dim-ids of one variable, count of them from pos on, as dimension names.
RECURSIVE ReadDimIds(_, _, _, _, _)
ReadDimIds(bs, pos, count, dims, acc) ==
  IF count <= 0 THEN Parsed(acc, pos)
  ELSE Then(_unpack_int(bs, pos), LAMBDA dimid :
         IF dimid.val < 0 \/ dimid.val >= Len(dims) THEN Failed("IndexError")
         ELSE ReadDimIds(bs, dimid.pos, count - 1, dims, Append(acc, dims[dimid.val + 1])))

\* _read_var: name, dimensions, shape, attributes, type, start, vsize.
_read_var(bs, pos, f, le) ==
  Then(_unpack_string(bs, pos), LAMBDA name :
  Then(_unpack_int(bs, name.pos), LAMBDA rank :
  Then(ReadDimIds(bs, rank.pos, rank.val, f._dims, <<>>), LAMBDA dims :
  Then(_read_att_array(bs, dims.pos), LAMBDA atts :
    LET tag == FpRead(bs, atts.pos, 4)
        vsize == FpRead(bs, atts.pos + 4, 4)
        t == IF Len(tag) = 4 /\ SubSeq(tag, 1, 3) = <<0, 0, 0>> THEN TYPEMAP(tag[4]) ELSE ""
    IN IF Len(vsize) < 4 THEN Failed("ValueError")
       ELSE Then(UnpackBegin(f.version_byte, bs, atts.pos + 8), LAMBDA start :
              IF t = "" THEN Failed("Exception")
              ELSE Parsed([name |-> asstr(name.val), dimensions |-> dims.val,
                           shape |-> [k \in 1..Len(dims.val) |-> f.dimensions[dims.val[k]]],
                           attributes |-> atts.val, type |-> t, start |-> start.val,
                           vsize |-> ElemVal(vsize, "=", le)],
                          start.pos))))))

\* The buffer of a non-record variable: size bytes at start, mapped
\* (use_mmap) or read.  mmap() raises when the file is shorter than
\* start + size; fromstring and the assignment of the shape raise when fewer
\* bytes than size were read.
ReadNonRec(bs, start, shape, t, use_mmap) ==
  IF \E k \in 1..Len(shape) : shape[k] = None THEN Failed("TypeError")
  ELSE LET size == Prod(shape) * itemsize(t)
       IN IF Len(FpRead(bs, start, size)) < size THEN Failed("ValueError")
          ELSE Parsed(Array(shape, DiskOrder(t), itemsize(t), FpRead(bs, start, size)), 0)

\* The bytes of one record variable's field of the record dtype: the
\* per-record layout shape[1:] of its type.
FieldSize(shape, t) == Prod(Tail(shape)) * itemsize(t)

\* The padding field that follows a record variable's field: present for the
\* types whose dtype char is in 'bch'.  TYPEMAP gives NC_CHAR the dtype '|S1',
\* whose char is 'S'.
PaddingSize(shape, t) ==
  IF t \in {"b", "h"} THEN NegMod4(FieldSize(shape, t)) ELSE 0

\* The fields of the record dtype, one entry per record variable in header
\* order: the offset of the variable's field in a record, its size and the
\* padding after it.  With one record variable the padding is dropped.
RECURSIVE Fields(_, _)
Fields(rec_vars, off) ==
  IF rec_vars = <<>> THEN <<>>
  ELSE LET v == Head(rec_vars)
           size == FieldSize(v.shape, v.type)
           pad == PaddingSize(v.shape, v.type)
       IN <<[name |-> v.name, off |-> off, size |-> size, pad |-> pad]>> \o
          Fields(Tail(rec_vars), off + size + pad)

RecDtype(rec_vars) ==
  IF Len(rec_vars) = 1
  THEN <<[name |-> rec_vars[1].name, off |-> 0, pad |-> 0,
          size |-> FieldSize(rec_vars[1].shape, rec_vars[1].type)]>>
  ELSE Fields(rec_vars, 0)

DtypeSize(fields) == Sum([k \in 1..Len(fields) |-> fields[k].size + fields[k].pad])

\* The record array: recs records of the record dtype at the offset records.
\* Read: fromstring of recs * recsize bytes must give whole records, recs of
\* them.  Mapped: the mapping of records + recs * recsize bytes must fit the
\* file.  The result is the number of bytes from one record to the next.
ReadRecArray(bs, records, recs, recsize, fields, use_mmap) ==
  IF use_mmap
  THEN IF records + recs * recsize > Len(bs) THEN Failed("ValueError")
       ELSE IF recs * DtypeSize(fields) > recs * recsize THEN Failed("TypeError")
       ELSE Parsed(DtypeSize(fields), 0)
  ELSE LET raw == FpRead(bs, records, recs * recsize)
       IN IF DtypeSize(fields) = 0 THEN (IF recs = 0 THEN Parsed(0, 0) ELSE Failed("ValueError"))
          ELSE IF Len(raw) % DtypeSize(fields) # 0 THEN Failed("ValueError")
          ELSE IF Len(raw) \div DtypeSize(fields) # recs THEN Failed("ValueError")
          ELSE Parsed(DtypeSize(fields), 0)

\* rec_array[var]: the field of one record variable in every record.
Column(bs, records, recs, stride, field, shape, t) ==
  Array(<<recs>> \o Tail(shape), DiskOrder(t), itemsize(t),
        Concat([i \in 1..recs |-> FpRead(bs, records + (i - 1) * stride + field.off, field.size)]))

\* The loop of _read_var_array over count variables.  acc holds the variables
\* added so far (the NcOrderedDict), the record variables met and the offset
\* of the first of them, and _recsize.
RECURSIVE ReadVars(_, _, _, _, _, _, _)
ReadVars(bs, pos, count, f, acc, use_mmap, le) ==
  IF count <= 0 THEN Parsed(acc, pos)
  ELSE Then(_read_var(bs, pos, f, le), LAMBDA v :
         IF v.val.shape # <<>> /\ v.val.shape[1] = None
         THEN With([variables |-> NcSetItem(acc.variables,
                                    netcdf_variable(v.val.name, NoArray, v.val.type, v.val.shape,
                                                    v.val.dimensions, v.val.attributes)),
                    rec_vars |-> Append(acc.rec_vars, v.val),
                    records |-> IF acc.records = 0 THEN v.val.start ELSE acc.records,
                    _recsize |-> acc._recsize + v.val.vsize], LAMBDA added :
                ReadVars(bs, v.pos, count - 1, f, added, use_mmap, le))
         ELSE Then(ReadNonRec(bs, v.val.start, v.val.shape, v.val.type, use_mmap), LAMBDA data :
              With([acc EXCEPT !.variables =
                      NcSetItem(acc.variables,
                                netcdf_variable(v.val.name, data.val, v.val.type, v.val.shape,
                                                v.val.dimensions, v.val.attributes))], LAMBDA added :
                ReadVars(bs, v.pos, count - 1, f, added, use_mmap, le))))

\* _read_var_array: the variables and _recsize.
_read_var_array(bs, pos, f, use_mmap, le) ==
  LET hd == FpRead(bs, pos, 4)
  IN IF hd # ZERO /\ hd # NC_VARIABLE THEN Failed("ValueError")
     ELSE IF hd = ZERO
     THEN IF FpRead(bs, pos + 4, 4) = ZERO THEN Parsed([variables |-> <<>>, _recsize |-> 0], pos + 8)
          ELSE Failed("AssertionError")
     ELSE Then(_unpack_int(bs, pos + 4), LAMBDA count :
          Then(ReadVars(bs, count.pos, count.val, f,
                        [variables |-> <<>>, rec_vars |-> <<>>, records |-> 0, _recsize |-> 0],
                        use_mmap, le), LAMBDA vs :
            IF vs.val.rec_vars = <<>>
            THEN Parsed([variables |-> vs.val.variables, _recsize |-> 0], vs.pos)
            ELSE With(RecDtype(vs.val.rec_vars), LAMBDA fields :
                 Then(ReadRecArray(bs, vs.val.records, f._recs, vs.val._recsize, fields, use_mmap),
                      LAMBDA arr :
                   LET field(name) == fields[CHOOSE k \in 1..Len(fields) : fields[k].name = name]
                   IN Parsed([variables |->
                                [k \in 1..Len(vs.val.variables) |->
                                   IF \E j \in 1..Len(fields) : fields[j].name = vs.val.variables[k].name
                                   THEN [vs.val.variables[k] EXCEPT !.data =
                                           Column(bs, vs.val.records, f._recs, arr.val,
                                                  field(vs.val.variables[k].name),
                                                  vs.val.variables[k]._shape, vs.val.variables[k].dtype)]
                                   ELSE vs.val.variables[k]],
                              _recsize |-> vs.val._recsize],
                             vs.pos)))))

\* netcdf_file(fp, 'r'): _read().  The result is the file object, or the
\* exception the constructor raises.
Read(bs, use_mmap, le) ==
  IF FpRead(bs, 0, 3) # <<67, 68, 70>> THEN [ok |-> FALSE, error |-> "TypeError", file |-> NewFile(1)]
  ELSE IF Len(bs) < 4 THEN [ok |-> FALSE, error |-> "IndexError", file |-> NewFile(1)]
  ELSE LET version == IF bs[4] >= 128 THEN bs[4] - 256 ELSE bs[4]
           fail(p) == [ok |-> FALSE, error |-> p.error, file |-> NewFile(1)]
           parsed ==
             Then(_unpack_int(bs, 4), LAMBDA numrecs :
             Then(_read_dim_array(bs, numrecs.pos), LAMBDA dims :
             Then(_read_att_array(bs, dims.pos), LAMBDA gatts :
             With([version_byte |-> version, dimensions |-> dims.val.dimensions,
                   _dims |-> dims.val._dims, variables |-> <<>>, _attributes |-> gatts.val,
                   _recs |-> numrecs.val, _recsize |-> 0], LAMBDA f :
             Then(_read_var_array(bs, gatts.pos, f, use_mmap, le), LAMBDA vs :
               Parsed([f EXCEPT !.variables = vs.val.variables, !._recsize = vs.val._recsize],
                      vs.pos))))))
       IN With(parsed, LAMBDA p :
            IF p.ok THEN [ok |-> TRUE, error |-> "", file |-> p.val] ELSE fail(p))

\* Opening the bytes last written for read.
read(use_mmap) ==
  /\ op' = [f |-> "_read", args |-> <<use_mmap>>]
  /\ \E r \in {Read(out, use_mmap, LITTLE_ENDIAN)} : rd' = r /\ err' = r.error
  /\ UNCHANGED <<dimensions, _dims, variables, _attributes, _recs, _recsize, declared, out, gen, before,
                 fp, ret>>
  /\ Frozen

\* The bytes bs with byte k (from 1) replaced by b.
Damage(bs, k, b) == [bs EXCEPT ![k] = b]

\* netcdf_file(filename, 'r') of the file that was written and closed, after
\* byte k of it was replaced by b.
open(k, b, use_mmap) ==
  /\ ~fp.isNone /\ fp.closed /\ Len(fp.bytes) >= k
  /\ op' = [f |-> "open", args |-> <<k, b>>]
  /\ \E r \in {Read(Damage(fp.bytes, k, b), use_mmap, LITTLE_ENDIAN)} : rd' = r /\ err' = r.error
  /\ UNCHANGED <<dimensions, _dims, variables, _attributes, _recs, _recsize, declared, out, gen, before,
                 fp, ret>>
  /\ Frozen

\* ------------------------------------------------------------------ streaming
\* One chunk of the producer: an array, with the variable and the record
\* (None for a non-record variable) whose data it is.
Chunk(name, rec, data) == [name |-> name, rec |-> rec, data |-> data]

\* data[i] of a record variable: one record as an array.
Row(v, i) == Array(Tail(v.data.shape), v.data.order, v.data.size, RecordBytes(v, i))

\* The chunks of a producer that follows the file's own layout: the data of
\* every non-record variable in iteration order, then record after record
\* the record of every record variable.
CanonicalInput(f) ==
  LET nr == non_recvars(f.variables)
      rv == recvars(f.variables)
  IN [k \in 1..Len(nr) |-> Chunk(nr[k].name, None, nr[k].data)] \o
     [p \in 1..(NumRecs(f) * Len(rv)) |->
        Chunk(rv[((p - 1) % Len(rv)) + 1].name, (p - 1) \div Len(rv),
              Row(rv[((p - 1) % Len(rv)) + 1], (p - 1) \div Len(rv)))]

\* check_byteorder: a chunk in little-endian order is replaced by its
\* byteswap().
check_byteorder(data, le) == IF IsLittle(data.order, le) THEN byteswap(data) ELSE data

\* The generator after StopIteration.
Stopped(g) == [g EXCEPT !.pc = "done", !.tag = [name |-> "", rec |-> None]]

\* The record loop of nc_generator up to its next yield: the next chunk is
\* pulled and its bytes are yielded; the loop ends when the input does.
RecLoop(f, g, le) ==
  IF f.variables = <<>> \/ recvars(f.variables) = <<>> \/ g.input = <<>>
  THEN Stopped(g)
  ELSE LET c == Head(g.input)
           bytes == check_byteorder(c.data, le).mem
       IN [g EXCEPT !.pc = "rec", !.input = Tail(g.input), !.n = Len(bytes),
                    !.pos = Len(g.blocks), !.blocks = g.blocks \o bytes,
                    !.tag = [name |-> c.name, rec |-> c.rec]]

\* The loop over the non-record variables up to its next yield, from the
\* k-th of them: chunks are pulled while count < end, and the '0' characters
\* are added only when fewer than itemsize bytes are missing.
RECURSIVE NonRecLoop(_, _, _, _)
NonRecLoop(f, g, k, le) ==
  LET nr == non_recvars(f.variables)
  IN IF k > Len(nr) THEN RecLoop(f, g, le)
     ELSE LET var == nr[k]
              end == IF var.dimensions # <<>> THEN var._begin + var._vsize ELSE var._begin
          IN IF g.count >= end THEN NonRecLoop(f, g, k + 1, le)
             ELSE IF g.input = <<>> THEN Stopped(g)
             ELSE LET c == Head(g.input)
                      data == check_byteorder(c.data, le)
                      count == g.count + Len(data.mem)
                      short == end - count < data.size
                  IN [g EXCEPT !.pc = "nonrec", !.k = k, !.input = Tail(g.input),
                               !.count = IF short THEN end ELSE count,
                               !.pos = Len(g.blocks),
                               !.blocks = g.blocks \o data.mem \o
                                          (IF short THEN Repeat(PadByte, Max(0, end - count)) ELSE <<>>),
                               !.tag = [name |-> c.name, rec |-> c.rec]]

\* The generator resumed after a yield, up to its next yield.
Resume(f, g, le) ==
  CASE g.pc = "header" -> NonRecLoop(f, [g EXCEPT !.count = Len(HeaderBytes(f, le))], 1, le)
    [] g.pc = "nonrec" -> NonRecLoop(f, g, g.k, le)
    [] g.pc = "rec" ->
         IF g.n % 4 # 0
         THEN [g EXCEPT !.pc = "pad", !.blocks = g.blocks \o Repeat(PadByte, g.n % 4),
                        !.tag = [name |-> "", rec |-> None]]
         ELSE RecLoop(f, [g EXCEPT !.count = g.count + g.n], le)
    [] g.pc = "pad" -> RecLoop(f, [g EXCEPT !.count = g.count + g.n + (g.n % 4)], le)

\* nc_generator(ncfile, input) up to its first yield: _calc_begins(), then
\* the header.
nc_generator(input) ==
  /\ op' = [f |-> "nc_generator", args |-> <<>>]
  /\ err' = ""
  /\ Becomes(AfterHeader(AfterCalcBegins(Self, LITTLE_ENDIAN)))
  /\ gen' = [pc |-> "header", count |-> 0, k |-> 0, n |-> 0, input |-> input, pos |-> 0,
             blocks |-> HeaderBytes(AfterCalcBegins(Self, LITTLE_ENDIAN), LITTLE_ENDIAN),
             tag |-> [name |-> "", rec |-> None]]
  /\ before' = Self
  /\ UNCHANGED <<out, rd, fp, ret>>

\* The consumer asks the generator for its next block.
next ==
  /\ gen.pc \in {"header", "nonrec", "rec", "pad"}
  /\ op' = [f |-> "next", args |-> <<>>]
  /\ err' = ""
  /\ gen' = Resume(Self, gen, LITTLE_ENDIAN)
  /\ UNCHANGED <<dimensions, _dims, variables, _attributes, _recs, _recsize, declared, out, rd, before,
                 fp, ret>>
  /\ Frozen

\* The coroutine nc_streamer run on to its next suspension, from the k-th
\* non-record variable: the yield of the first variable that lacks bytes,
\* else the yield of the record loop.  When range(_recs) or the record
\* variables are empty, `while True` has no yield to reach and the coroutine
\* stays in that loop.
RECURSIVE Advance(_, _, _)
Advance(f, g, k) ==
  LET nr == non_recvars(f.variables)
  IN IF k > Len(nr)
     THEN [g EXCEPT !.pc = IF f._recs > 0 /\ recvars(f.variables) # <<>> THEN "yield_rec" ELSE "loop"]
     ELSE IF g.count < (IF nr[k].dimensions # <<>> THEN nr[k]._begin + nr[k]._vsize ELSE nr[k]._begin)
     THEN [g EXCEPT !.pc = "yield_nonrec", !.k = k]
     ELSE Advance(f, g, k + 1)

\* nc_streamer(ncfile, target) as the coroutine decorator returns it, primed:
\* _calc_begins(), the header sent to the target, and the run to the first
\* yield.  Without variables the generator ends at once and the priming
\* next() raises StopIteration.  input holds the chunks the producer is
\* going to send, sent those it has sent, blocks what the target received,
\* ret the bytes the last send() returned (none when it returned None),
\* turns the parity of the turns of `while True` made without a yield.
nc_streamer(input) ==
  /\ op' = [f |-> "nc_streamer", args |-> <<>>]
  /\ err' = IF variables = <<>> THEN "StopIteration" ELSE ""
  /\ Becomes(AfterHeader(AfterCalcBegins(Self, LITTLE_ENDIAN)))
  /\ \E f \in {AfterHeader(AfterCalcBegins(Self, LITTLE_ENDIAN))} :
     \E g \in {[pc |-> "done", count |-> Len(HeaderBytes(f, LITTLE_ENDIAN)), k |-> 0, n |-> 0,
                input |-> input, sent |-> <<>>, pos |-> 0, ret |-> <<>>, turns |-> 0,
                blocks |-> HeaderBytes(AfterCalcBegins(Self, LITTLE_ENDIAN), LITTLE_ENDIAN),
                tag |-> [name |-> "", rec |-> None]]} :
       gen' = IF variables = <<>> THEN g ELSE Advance(f, g, 1)
  /\ before' = Self
  /\ UNCHANGED <<out, rd, fp, ret>>

\* pipeline.send(data) with pipeline = byteorderer(nc_streamer(...)): the
\* producer sends its next chunk, byteorderer swaps it when it is
\* little-endian, and nc_streamer runs from the yield it is suspended at to
\* its next one.  At the yield of the non-record loop and at `data = (yield)`
\* of the record loop the chunk goes to the target; the record loop then
\* yields its padding, which is the value send() returns, and the chunk sent
\* next is the value of that yield expression, which nothing reads.
send ==
  /\ gen.pc \in {"yield_nonrec", "yield_rec", "yield_pad"}
  /\ gen.input # <<>>
  /\ op' = [f |-> "send", args |-> <<>>]
  /\ err' = ""
  /\ LET c == Head(gen.input)
         data == check_byteorder(c.data, LITTLE_ENDIAN)
         g == [gen EXCEPT !.input = Tail(gen.input), !.sent = Append(gen.sent, c), !.ret = <<>>,
                          !.tag = [name |-> c.name, rec |-> c.rec]]
         var == non_recvars(variables)[gen.k]
         end == IF var.dimensions # <<>> THEN var._begin + var._vsize ELSE var._begin
         count == gen.count + Len(data.mem)
         short == end - count < data.size
     IN gen' =
          CASE gen.pc = "yield_nonrec" ->
                 Advance(Self,
                         [g EXCEPT !.count = IF short THEN end ELSE count,
                                   !.pos = Len(gen.blocks),
                                   !.blocks = gen.blocks \o data.mem \o
                                              (IF short THEN Repeat(PadByte, Max(0, end - count)) ELSE <<>>)],
                         gen.k)
            [] gen.pc = "yield_rec" ->
                 IF Len(data.mem) % 4 # 0
                 THEN [g EXCEPT !.pc = "yield_pad", !.n = Len(data.mem), !.pos = Len(gen.blocks),
                                !.blocks = gen.blocks \o data.mem,
                                !.ret = Repeat(PadByte, Len(data.mem) % 4)]
                 ELSE [g EXCEPT !.n = Len(data.mem), !.pos = Len(gen.blocks),
                                !.blocks = gen.blocks \o data.mem,
                                !.count = gen.count + Len(data.mem)]
            [] gen.pc = "yield_pad" ->
                 [g EXCEPT !.pc = "yield_rec", !.count = gen.count + gen.n + (gen.n % 4)]
  /\ UNCHANGED <<dimensions, _dims, variables, _attributes, _recs, _recsize, declared, out, rd, before,
                 fp, ret>>
  /\ Frozen

\* One turn of `while True` in the record loop of nc_streamer when
\* range(_recs) or the record variables are empty: vars is assigned again,
\* the for loops run no iteration, and the loop starts over, inside the
\* send() (or the priming next()) that entered it.
spin ==
  /\ gen.pc = "loop"
  /\ gen' = [gen EXCEPT !.turns = 1 - @]
  /\ UNCHANGED <<dimensions, _dims, variables, _attributes, _recs, _recsize, declared, op, err, out, rd,
                 before, fp, ret>>
  /\ Frozen

\* ------------------------------------------------------------------ Spec
Init ==
  /\ LITTLE_ENDIAN \in BOOLEAN
  /\ version_byte \in {1, 2}
  /\ dimensions = EmptyDict
  /\ _dims = <<>>
  /\ variables = <<>>
  /\ _attributes = <<>>
  /\ _recs = 0
  /\ _recsize = 0
  /\ declared = <<>>
  /\ op = NoOp
  /\ err = ""
  /\ out = <<>>
  /\ rd = NoRead
  /\ gen = NoGen
  /\ before = NewFile(version_byte)
  /\ fp \in {NoFile, OpenFile}
  /\ ret = None

\* The type the declarations of Spec use: the type plays no part in
\* what createVariable checks or in the order of the variables.
ApiTypes == {"i"}

\* The calls that declare a file: any dimension, any variable.
\* The new buffer is zero here: createVariable never looks at its contents,
\* and SpecWrite is where they vary.
Next ==
  \/ \E name \in DimNames, length \in Lengths :
       Len(_dims) < MaxDims /\ createDimension(name, length)
  \/ \E name \in VarNames, type \in ApiTypes, dims \in DimTuples :
       createVariable(name, type, dims, 0)

\* Spec runs on a little-endian host and declares a version 1 file that has
\* no file handle.
InitApi == Init /\ LITTLE_ENDIAN /\ version_byte = 1 /\ fp = NoFile

Spec == InitApi /\ [][Next]_vars

\* ------------------------------------------------------------------ SpecWrite
\* The declarations SpecWrite draws from: the unlimited dimension "t" and
\* the fixed dimension "xy", each declared once; the dimension tuples
\* createVariable accepts.
WriteDims == {<<"t", None>>} \cup {<<"xy", n>> : n \in 1..MaxLen}
WriteTuples == {<<>>, <<"t">>, <<"xy">>, <<"t", "xy">>}
WriteAtts == {StrValue(<<97, 98, 99>>)}

\* No header was generated, no begin computed, nothing written yet.
Declaring == op.f \in {"__init__", "createDimension", "createVariable", "__setitem__", "__setattr__"}

\* A file is built: an attribute, the dimensions, the variables, and then
\* the record variables are filled record after record.
Build ==
  \/ \E name \in AttNames, value \in WriteAtts :
       Declaring /\ _dims = <<>> /\ variables = <<>> /\ _attributes = <<>> /\ __setattr__(name, value)
  \/ \E d \in WriteDims :
       Declaring /\ Len(_dims) < MaxDims /\ d[1] \notin DOMAIN dimensions /\ createDimension(d[1], d[2])
  \/ \E name \in VarNames, type \in Types, dims \in WriteTuples, fill \in 0..MaxFill :
       /\ Declaring /\ ~HasKey(variables, name)
       /\ \A other \in VarNames : NameOrd(other) < NameOrd(name) => HasKey(variables, other)
       /\ createVariable(name, type, dims, fill)
  \/ \E name \in VarNames :
       /\ Declaring /\ HasKey(variables, name) /\ isrec(Get(variables, name))
       /\ Get(variables, name).data.shape[1] < MaxRecs
       /\ __setitem__(name, Get(variables, name).data.shape[1], 16 * (Get(variables, name).data.shape[1] + 1))

\* A file is built, and then its header is generated, its begins are
\* computed, or it is written and read back.
NextWrite ==
  \/ Build
  \/ Declaring /\ _calc_begins
  \/ Declaring /\ _header
  \/ Declaring /\ __generate__
  \/ \E use_mmap \in BOOLEAN : op.f = "__generate__" /\ read(use_mmap)

\* SpecWrite runs on a little-endian host, where the writer has to swap, on
\* a file that has no file handle.
InitWrite == Init /\ LITTLE_ENDIAN /\ fp = NoFile

SpecWrite == InitWrite /\ [][NextWrite]_vars

\* ------------------------------------------------------------------ SpecStream
\* Every record variable of the file holds the same number of records.
WellFormed(f) ==
  \A j \in 1..Len(f.variables) :
    isrec(f.variables[j]) => f.variables[j].data.shape[1] = NumRecs(f)

\* A file is built and then streamed block by block from the chunks of a
\* producer that follows the layout.
NextStream ==
  \/ Build
  \/ Declaring /\ WellFormed(Self) /\ nc_generator(CanonicalInput(Self))
  \/ next

SpecStream == InitWrite /\ [][NextStream]_vars

\* ------------------------------------------------------------------ SpecFile
\* The types SpecFile gives its variable "a": one of a byte, one of four
\* that the writer swaps.
FileTypes == {"b", "i"}

\* Nothing but declarations happened to the file so far.
Fresh == op.f \in {"__init__", "createDimension", "createVariable", "__setattr__"}

\* A file is declared: the dimensions and the variables of the names, "a"
\* before "bb".
Declare(names, types) ==
  \/ \E d \in WriteDims :
       /\ Len(_dims) < MaxDims /\ d[1] \notin DOMAIN dimensions
       /\ createDimension(d[1], d[2])
  \/ \E name \in names, type \in types, dims \in WriteTuples :
       /\ ~HasKey(variables, name)
       /\ \A other \in names : NameOrd(other) < NameOrd(name) => HasKey(variables, other)
       /\ createVariable(name, type, dims, 0)

\* The life of a file opened for write: it is declared, numrecs is set
\* before the first write, records are assigned before and after a write,
\* and the file is flushed and closed again and again; the file just closed
\* is opened for read with one of its first four bytes replaced.
NextFile ==
  \/ Fresh /\ Declare({"a"}, FileTypes)
  \/ \E name \in VarNames, i \in 0..MaxRecs :
       /\ ~fp.closed /\ HasKey(variables, name) /\ isrec(Get(variables, name))
       /\ __setitem__(name, i, 16 * (i + 1))
  \/ \E numrecs \in 0..(MaxRecs + 1) : fp.writes = 0 /\ set_numrecs(numrecs)
  \/ fp.writes < MaxFlush /\ flush
  \/ fp.writes < MaxFlush /\ close
  \/ \E k \in 1..4, b \in {0, 3}, use_mmap \in BOOLEAN : op.f = "close" /\ open(k, b, use_mmap)

\* SpecFile runs on a little-endian host and opens a version 1 file for
\* write.
InitFile == Init /\ LITTLE_ENDIAN /\ version_byte = 1 /\ fp = OpenFile

SpecFile == InitFile /\ [][NextFile]_vars

\* ------------------------------------------------------------------ SpecVirtual
\* A file without fp: it is declared and given attributes, numrecs is set,
\* and its size is asked for, in any order.
NextVirtual ==
  \/ Declare(VarNames, FileTypes)
  \/ \E name \in AttNames, value \in WriteAtts : _attributes = <<>> /\ __setattr__(name, value)
  \/ \E numrecs \in 0..(MaxRecs + 1) : set_numrecs(numrecs)
  \/ filesize

\* SpecVirtual runs on a little-endian host, on a file without fp.
SpecVirtual == InitWrite /\ [][NextVirtual]_vars

\* ------------------------------------------------------------------ SpecSet
\* A file is declared, and then its record variables are assigned to by
\* index and by slice.
NextSet ==
  \/ Fresh /\ Declare({"a"}, FileTypes)
  \/ \E name \in VarNames, i \in 0..MaxRecs :
       /\ HasKey(variables, name) /\ isrec(Get(variables, name))
       /\ __setitem__(name, i, 16 * (i + 1))
  \/ \E name \in VarNames, start \in {None} \cup (0..MaxRecs), n \in 1..(MaxRecs + 1) :
       /\ HasKey(variables, name) /\ isrec(Get(variables, name))
       /\ SetSlice(name, start, n)

SpecSet == InitWrite /\ [][NextSet]_vars

\* ------------------------------------------------------------------ SpecPipe
\* The producers of SpecPipe: the one that follows the layout; one that has
\* one chunk more, the next record of the last variable; one that ends one
\* chunk early; one whose first chunk has its bytes twice.
Producers(f) ==
  LET c == CanonicalInput(f)
      last == c[Len(c)]
  IN IF c = <<>> THEN {c}
     ELSE {c,
           Append(c, [last EXCEPT !.rec = IF @ = None THEN None ELSE @ + 1]),
           SubSeq(c, 1, Len(c) - 1),
           <<[c[1] EXCEPT !.data.mem = @ \o @]>> \o Tail(c)}

\* A file is declared and filled, and then streamed from one of the
\* producers, through nc_generator block by block or through nc_streamer
\* chunk by chunk.
NextPipe ==
  \/ Declaring /\ Declare(VarNames, FileTypes)
  \/ \E name \in VarNames :
       /\ Declaring /\ HasKey(variables, name) /\ isrec(Get(variables, name))
       /\ Get(variables, name).data.shape[1] < MaxRecs
       /\ __setitem__(name, Get(variables, name).data.shape[1], 16 * (Get(variables, name).data.shape[1] + 1))
  \/ Declaring /\ WellFormed(Self) /\ \E input \in Producers(Self) : nc_generator(input)
  \/ next
  \/ Declaring /\ WellFormed(Self) /\ \E input \in Producers(Self) : nc_streamer(input)
  \/ send
  \/ spin

\* SpecPipe runs on a little-endian host; the producer of a coroutine goes
\* on sending while it has chunks, and the interpreter goes on running a
\* coroutine that is in its loop.
SpecPipe == InitWrite /\ [][NextPipe]_vars /\ WF_vars(send) /\ WF_vars(spin)

\* ------------------------------------------------------------------ properties
\* The names of decl whose variable is a non-record variable, then those
\* whose variable is a record variable, each in the order of decl.
DeclarationOrder(items, decl) ==
  LET IsRecName(n) == isrec(Get(items, n))
      IsNonRecName(n) == ~isrec(Get(items, n))
  IN SelectSeq(decl, IsNonRecName) \o SelectSeq(decl, IsRecName)

\* C2: after any sequence of createVariable calls, iterating variables
\* yields the non-record variables in declaration order, then the record
\* variables in declaration order.
C2_CanonicalOrder == Keys(variables) = DeclarationOrder(variables, declared)

\* C8: createDimension with length None or 0 on a file that already has a
\* dimension raises an error and leaves dimensions and _dims as they were.
C8_NonFirstUnlimitedRejected ==
  [][(op'.f = "createDimension" /\ Falsy(op'.args[2]) /\ DOMAIN dimensions # {})
       => (err' = "ValueError" /\ dimensions' = dimensions /\ _dims' = _dims)]_vars

\* A second dimension of length None or 0 was asked for and refused.
C8_Witness ==
  /\ op.f = "createDimension" /\ Falsy(op.args[2]) /\ err = "ValueError"
  /\ Len(_dims) = 1 /\ DOMAIN dimensions # {}

\* The dimension tuple names a dimension that was never declared.
Undeclared(dims) == \E k \in 1..Len(dims) : dims[k] \notin DOMAIN dimensions

\* The dimension tuple holds the unlimited dimension (length None) at a
\* position other than the first.
UnlimitedNotFirst(dims) ==
  \E k \in 2..Len(dims) : dims[k] \in DOMAIN dimensions /\ dimensions[dims[k]] = None

\* C9: createVariable whose dimension tuple holds the unlimited dimension
\* at a position other than the first, or names an undeclared dimension,
\* raises an error and leaves variables as it was.
C9_BadDimensionsRejected ==
  [][(op'.f = "createVariable" /\ (Undeclared(op'.args[2]) \/ UnlimitedNotFirst(op'.args[2])))
       => (err' # "" /\ variables' = variables)]_vars

\* C10: in every variable's dimension tuple the unlimited dimension (length
\* None or 0) occurs at index 0 only, and no more than once.
C10_UnlimitedOnlyFirst ==
  \A j \in 1..Len(variables) :
    \A k \in 2..Len(variables[j].dimensions) :
      ~Falsy(dimensions[variables[j].dimensions[k]])

\* Two arrays of the same shape that hold the same values.
SameData(a, b, le) == ~b.isNone /\ a.shape = b.shape /\ Values(a, le) = Values(b, le)

\* Two variables of the same name, dimension tuple, type, attributes and
\* data.
SameVariable(v, w, le) ==
  /\ v.name = w.name /\ v.dimensions = w.dimensions /\ v.dtype = w.dtype
  /\ v._attributes = w._attributes
  /\ SameData(v.data, w.data, le)

\* Two files of the same dimensions (names, order, lengths), the same
\* global attributes and the same variables.
SameFile(f, g, le) ==
  /\ f.dimensions = g.dimensions /\ f._dims = g._dims
  /\ f._attributes = g._attributes
  /\ Len(f.variables) = Len(g.variables)
  /\ \A j \in 1..Len(f.variables) :
       /\ HasKey(g.variables, f.variables[j].name)
       /\ SameVariable(f.variables[j], Get(g.variables, f.variables[j].name), le)

\* C1: a well-formed file written by the eager writer and read back has
\* the same dimensions, attributes, variables and data as the file that was
\* written.
C1_RoundTrip ==
  (op.f = "_read" /\ WellFormed(before)) =>
    (rd.ok /\ SameFile(before, rd.file, LITTLE_ENDIAN))

\* C3: after _calc_begins the first variable's begin is the length of the
\* header encoded with the real offsets, and every following variable's
\* begin is the previous variable's begin plus the previous variable's
\* vsize, in version 1 and in version 2.
C3_Offsets ==
  (op.f = "_calc_begins" /\ variables # <<>>) =>
    /\ variables[1]._begin = Len(HeaderBytes(Self, LITTLE_ENDIAN))
    /\ \A k \in 2..Len(variables) :
         variables[k]._begin = variables[k - 1]._begin + variables[k - 1]._vsize

\* Two variables of a version 2 file have their begins.
C3_Witness ==
  /\ op.f = "_calc_begins" /\ version_byte = 2 /\ Len(variables) = 2
  /\ variables[2]._begin > variables[1]._begin

RawSize(v) ==
  IF isrec(v) THEN Prod(Tail(v.data.shape)) * itemsize(v.dtype)
  ELSE Prod(v.data.shape) * itemsize(v.dtype)

\* n rounded up to the next multiple of 4.
RoundUp4(n) == ((n + 3) \div 4) * 4

HeaderPosition(f, tag) ==
  IF tag.rec = None THEN Get(f.variables, tag.name)._begin
  ELSE LET rv == recvars(f.variables)
           at == Index(Keys(rv), tag.name)
       IN rv[1]._begin + tag.rec * f._recsize + Sum([k \in 1..(at - 1) |-> rv[k]._vsize])

\* C6: when the producer supplies its chunks in canonical order, the blocks
\* nc_generator yields are, put together, the bytes the eager writer
\* yields for the same file.
C6_StreamingEqualsEager ==
  gen.pc = "done" => gen.blocks = Generate(before, LITTLE_ENDIAN).bytes

\* C7: when nc_generator yields the data of a variable (of a record of a
\* record variable), the bytes yielded before it are as many as the
\* position the header gives that data.
C7_StreamingPosition ==
  (gen.pc \in {"nonrec", "rec"} /\ gen.tag.name # "") =>
    gen.pos = HeaderPosition(Self, gen.tag)

\* C11: after every flush that wrote the file, the numrecs value written in
\* the header (bytes 5 to 8 of what was written) equals data.shape[0] of
\* every record variable.
C11_NumrecsMatchesData ==
  (op.f = "flush" /\ err = "") =>
    \A j \in 1..Len(variables) :
      isrec(variables[j]) => variables[j].data.shape[1] = Int32(SubSeq(out, 5, 8))

\* C12: for a file without fp, whenever generating the file produces its
\* bytes, filesize returns their number.
C12_FilesizeIsGeneratedSize ==
  (op.f = "filesize" /\ Generate(Self, LITTLE_ENDIAN).err = "") =>
    (err = "" /\ ret = Len(Generate(Self, LITTLE_ENDIAN).bytes))

\* C13: for a file without fp that has record variables and numrecs 0,
\* filesize returns the begin of the first record variable.
C13_FilesizeNoRecords ==
  (op.f = "filesize" /\ recvars(variables) # <<>> /\ _recs = 0) =>
    (err = "" /\ ret = recvars(AfterCalcBegins(Self, LITTLE_ENDIAN).variables)[1]._begin)

C15_ZeroPadding ==
  \A j \in 1..Len(variables) :
    LET n == Len(asbytes(variables[j].name))
        p == _pack_string(variables[j].name)
    IN /\ Len(p) = 4 + n + NegMod4(n)
       /\ \A i \in (4 + n + 1)..Len(p) : p[i] = NulByte

\* C16: the vsize field of the last variable of the header, the four bytes
\* before its begin field, is the vsize as a big-endian int32, whatever the
\* host's byte order.
C16_BigEndianFields ==
  (op.f = "_header" /\ variables # <<>>) =>
    LET begin == IF version_byte = 1 THEN 4 ELSE 8
    IN SubSeq(out, Len(out) - begin - 3, Len(out) - begin) =
         BigEndian(variables[Len(variables)]._vsize, 4)

\* C17: opening a file whose first three bytes are not 'CDF', or whose
\* fourth byte is not 1 or 2, raises an error.
C17_BadMagicOrVersionRejected ==
  op.f = "open" =>
    LET bs == Damage(fp.bytes, op.args[1], op.args[2])
    IN (SubSeq(bs, 1, 3) # <<67, 68, 70>> \/ bs[4] \notin {1, 2}) => (~rd.ok /\ err # "")

\* C18: the header of a file is the header of the file with the same
\* declarations, attributes and data on which no operation was performed:
\* no _recs, no _recsize, no _vsize and no _begin computed.
C18_HeaderStable ==
  LET untouched ==
        [Self EXCEPT !._recs = 0, !._recsize = 0,
                     !.variables = [k \in 1..Len(variables) |->
                                      [variables[k] EXCEPT !._begin = None, !._vsize = None]]]
  IN HeaderBytes(Self, LITTLE_ENDIAN) = HeaderBytes(untouched, LITTLE_ENDIAN)

C20_RecordRegion ==
  (op.f = "__generate__" /\ err = "" /\ recvars(variables) # <<>>) =>
    Len(out) - recvars(variables)[1]._begin = _recs * _recsize

\* C28: _dims holds each key of dimensions exactly once, so the dimension
\* count of the header is the number of dimensions and a dim-id names one
\* entry.
C28_DimsOnce ==
  \A name \in DOMAIN dimensions :
    Cardinality({k \in 1..Len(_dims) : _dims[k] = name}) = 1

\* C26: a flush() followed by close() leaves in the file the bytes close()
\* alone would have left: those generated from the file as the flush found
\* it.
C26_FlushIdempotent ==
  [][(op.f = "flush" /\ err = "" /\ fp.writes = 1 /\ op'.f = "close" /\ err' = "") =>
       fp'.bytes = Generate(before, LITTLE_ENDIAN).bytes]_vars

\* C27: after __generate__ every variable has the values and the attributes
\* it had before.
C27_WriteKeepsFile ==
  (op.f = "__generate__" /\ err = "") =>
    /\ Len(variables) = Len(before.variables)
    /\ \A j \in 1..Len(variables) :
         SameVariable(Get(before.variables, variables[j].name), variables[j], LITTLE_ENDIAN)

\* C25: with two or more record variables in the header, the field and the
\* padding the reader's record dtype gives a variable are together its
\* vsize; with one record variable the dtype has no padding.
C25_RecordDtype ==
  (op.f = "__generate__" /\ recvars(variables) # <<>>) =>
    LET rv == recvars(variables)
        fields == RecDtype([k \in 1..Len(rv) |->
                              [name |-> rv[k].name, shape |-> rv[k]._shape, type |-> rv[k].dtype]])
    IN IF Len(rv) = 1 THEN fields[1].pad = 0
       ELSE \A k \in 1..Len(rv) : fields[k].size + fields[k].pad = rv[k]._vsize

\* C21: when nc_generator has pulled the whole data of the non-record
\* variable it is at, the block it yields is vsize bytes long, the data and
\* the padding, and the variable is complete, so that the next chunk goes to
\* the next variable.
C21_NonRecordPadding ==
  (gen.pc = "nonrec" /\ gen.tag.name = non_recvars(variables)[gen.k].name) =>
    LET var == non_recvars(variables)[gen.k]
    IN /\ Len(gen.blocks) - gen.pos = var._vsize
       /\ gen.count = var._begin + var._vsize

\* C22: the chunk of L bytes nc_generator pulled for a record variable is
\* followed by vsize - L bytes of padding, by none when that is 0.
C22_RecordPadding ==
  [][(gen.pc = "rec" /\ gen.tag.rec # None) =>
       LET padding == IF gen'.pc = "pad" THEN Len(gen'.blocks) - Len(gen.blocks) ELSE 0
       IN gen.n + padding = Get(variables, gen.tag.name)._vsize]_vars

\* C23: when numrecs is known, no chunk of a record past numrecs is pulled
\* from the producer.
C23_StopsAtNumrecs ==
  (gen.pc \in {"rec", "yield_rec", "yield_pad"} /\ _recs > 0 /\ gen.tag.rec # None) =>
    gen.tag.rec < _recs

\* C24: nc_generator raises when the chunk of a non-record variable reaches
\* past the variable's begin + vsize, and when the producer ends while a
\* non-record variable lacks bytes.
C24_MisalignmentIsError ==
  LET nr == non_recvars(variables)
  IN /\ (/\ gen.pc = "nonrec" /\ gen.tag.name = nr[gen.k].name
         /\ Len(gen.blocks) > nr[gen.k]._begin + nr[gen.k]._vsize) => err # ""
     /\ (/\ gen.pc = "done" /\ op.f = "next"
         /\ \E k \in 1..Len(nr) :
              nr[k].dimensions # <<>> /\ gen.count < nr[k]._begin + nr[k]._vsize) => err # ""

\* C29: a send() that has entered nc_streamer comes back: the coroutine
\* does not stay in its `while True` loop.
C29_SendReturns ==
  []((op.f = "send" /\ gen.pc = "loop") => <>(gen.pc # "loop"))

\* C30: what the target of nc_streamer has received is the header and then
\* every chunk sent, each followed by some padding, and no send() has
\* returned anything to the producer.
C30_TargetGetsEverything ==
  gen.pc \in {"yield_nonrec", "yield_rec", "yield_pad", "loop"} =>
    /\ gen.ret = <<>>
    /\ \E pads \in [1..Len(gen.sent) -> 0..3] :
         gen.blocks =
           HeaderBytes(AfterCalcBegins(before, LITTLE_ENDIAN), LITTLE_ENDIAN) \o
           Concat([k \in 1..Len(gen.sent) |->
                     check_byteorder(gen.sent[k].data, LITTLE_ENDIAN).mem \o Repeat(PadByte, pads[k])])

====
